---- MODULE Spec2Model ----
(***************************************************************************)
(* Timeline viewer (human-history): calendar <-> ordinal conversion and    *)
(* the zoom / pan / resize view model of src/unnamed/part_000 (the         *)
(* responsive variant of src/src/script.ts).                               *)
(*                                                                         *)
(* Numbers.  JavaScript numbers are modelled exactly:                      *)
(*   - a "Rat" is a normalised fraction <<n, d>> (d > 0, gcd(n, d) = 1);   *)
(*     it carries pixel values, scale factors and ordinal differences;     *)
(*   - an "Ord" is an ordinal (Julian Day Number) kept as a mixed number   *)
(*     [w |-> whole part, f |-> Rat in [0, 1)], because ordinals are of    *)
(*     the order of 10^6 and their fractions have large denominators.      *)
(* Floating-point rounding is not modelled.                                *)
(***************************************************************************)
EXTENDS Integers, Sequences, FiniteSets, TLC

(***************************************************************************)
(* Exact rational arithmetic                                               *)
(***************************************************************************)
Abs(n) == IF n < 0 THEN -n ELSE n

RECURSIVE GCD(_, _)
GCD(a, b) == IF b = 0 THEN a ELSE GCD(b, a % b)

RNorm(n, d) ==
    LET s == IF d < 0 THEN -1 ELSE 1
        g == GCD(Abs(n), Abs(d))
    IN  <<(s * n) \div g, (s * d) \div g>>

RInt(i) == <<i, 1>>
RNeg(a) == <<-a[1], a[2]>>
RAdd(a, b) ==
    LET g == GCD(a[2], b[2])
    IN  RNorm(a[1] * (b[2] \div g) + b[1] * (a[2] \div g), (a[2] \div g) * b[2])
RSub(a, b) == RAdd(a, RNeg(b))
RMul(a, b) ==
    LET g1 == GCD(Abs(a[1]), b[2])
        g2 == GCD(Abs(b[1]), a[2])
    IN  RNorm((a[1] \div g1) * (b[1] \div g2), (a[2] \div g2) * (b[2] \div g1))
RInv(a) == IF a[1] < 0 THEN <<-a[2], -a[1]>> ELSE <<a[2], a[1]>>
RDiv(a, b) == RMul(a, RInv(b))
RSign(a) == IF a[1] < 0 THEN -1 ELSE IF a[1] = 0 THEN 0 ELSE 1
RLt(a, b) == RSign(RSub(a, b)) < 0
RLe(a, b) == RSign(RSub(a, b)) <= 0
RMin(a, b) == IF RLt(b, a) THEN b ELSE a
RMax(a, b) == IF RLt(a, b) THEN b ELSE a
RFloor(a) == a[1] \div a[2]
RZero == RInt(0)
ROne == RInt(1)
RHalf == <<1, 2>>

\* Ordinals as mixed numbers
OrdOf(w, r) == LET fl == RFloor(r) IN [w |-> w + fl, f |-> RSub(r, RInt(fl))]
OrdSub(a, b) == RAdd(RInt(a.w - b.w), RSub(a.f, b.f))
OrdAdd(a, r) == OrdOf(a.w, RAdd(a.f, r))
OrdLt(a, b) == a.w < b.w \/ (a.w = b.w /\ RLt(a.f, b.f))
OrdLe(a, b) == a = b \/ OrdLt(a, b)

(***************************************************************************)
(* Calendar converter                                                      *)
(***************************************************************************)
\* Math.floor(365.25 * n) and Math.floor(30.6001 * n), n an integer
Floor36525(n) == (1461 * n) \div 4
Floor306001(n) == (306001 * n) \div 10000

DateRec(y, m, d) == [year |-> y, month |-> m, day |-> d]

\* (mutant: the January/February shift to the previous year is left out)
jdnInteger_NoMonthShift(date) ==
    LET y == date.year
        m == date.month
        A == y \div 100
        B == IF y < 0 THEN 0 ELSE 2 - A + (A \div 4)
    IN  Floor36525(y + 4716) + Floor306001(m + 1) + date.day + B

\* (mutant: the Gregorian correction term B is left out)
jdnInteger_NoCorrection(date) ==
    LET shifted == date.month <= 2
        y == IF shifted THEN date.year - 1 ELSE date.year
        m == IF shifted THEN date.month + 12 ELSE date.month
    IN  Floor36525(y + 4716) + Floor306001(m + 1) + date.day

\* the Gregorian correction term B of dateToNumber: y is the year after the
\* January/February shift
dateToNumber_B(date) ==
    LET y == IF date.month <= 2 THEN date.year - 1 ELSE date.year
        A == y \div 100
    IN  IF y < 0 THEN 0 ELSE 2 - A + (A \div 4)

\* the value before the final "- 1524.5", an integer
jdnInteger(date) ==
    LET shifted == date.month <= 2
        y == IF shifted THEN date.year - 1 ELSE date.year
        m == IF shifted THEN date.month + 12 ELSE date.month
    IN  Floor36525(y + 4716) + Floor306001(m + 1) + date.day + dateToNumber_B(date)

dateToNumber(date) == OrdOf(jdnInteger(date) - 1525, RHalf)

\* (mutant: the month is E - 1 for every E, without the wrap at E >= 14)
numberToDate_NoMonthWrap(jd) ==
    LET J == OrdAdd(jd, RHalf)
        Z == J.w
        F == J.f
        alpha == (4 * Z - 7468865) \div 146097
        A == IF Z < 2299161 THEN Z ELSE Z + 1 + alpha - (alpha \div 4)
        B == A + 1524
        C == (20 * B - 2442) \div 7305
        D == Floor36525(C)
        E == (10000 * (B - D)) \div 306001
        day == RAdd(RInt(B - D - Floor306001(E)), F)
        month == E - 1
        year == IF month > 2 THEN C - 4716 ELSE C - 4715
    IN  DateRec(year, month, RFloor(day))

numberToDate(jd) ==
    LET J == OrdAdd(jd, RHalf)
        Z == J.w
        F == J.f
        alpha == (4 * Z - 7468865) \div 146097
        A == IF Z < 2299161 THEN Z ELSE Z + 1 + alpha - (alpha \div 4)
        B == A + 1524
        C == (20 * B - 2442) \div 7305
        D == Floor36525(C)
        E == (10000 * (B - D)) \div 306001
        day == RAdd(RInt(B - D - Floor306001(E)), F)
        month == IF E < 14 THEN E - 1 ELSE E - 13
        year == IF month > 2 THEN C - 4716 ELSE C - 4715
    IN  DateRec(year, month, RFloor(day))

monthNames ==
    <<"Jan", "Feb", "Mar", "Apr", "May", "Jun", "Jul", "Aug", "Sep", "Oct", "Nov", "Dec">>
formatDate(date) ==
    LET monthStr == monthNames[date.month]
        yearStr == IF date.year < 0 THEN ToString(Abs(date.year)) \o " BCE"
                   ELSE ToString(date.year) \o " CE"
    IN  ToString(date.day) \o " " \o monthStr \o " " \o yearStr

(***************************************************************************)
(* d3 linear scale (d3.scaleLinear), as a value [d0, d1, r0, r1]           *)
(***************************************************************************)
LinearScale(d0, d1, r0, r1) == [d0 |-> d0, d1 |-> d1, r0 |-> r0, r1 |-> r1]

\* scale(v): normalise v over the domain (0.5 for a single-point domain), then
\* interpolate over the range
ScaleApply(s, v) ==
    LET span == OrdSub(s.d1, s.d0)
        t == IF span = RZero THEN RHalf ELSE RDiv(OrdSub(v, s.d0), span)
    IN  RAdd(s.r0, RMul(t, RSub(s.r1, s.r0)))

\* scale.invert(p)
ScaleInvert(s, p) ==
    LET span == RSub(s.r1, s.r0)
        t == IF span = RZero THEN RHalf ELSE RDiv(RSub(p, s.r0), span)
    IN  OrdAdd(s.d0, RMul(t, OrdSub(s.d1, s.d0)))

(***************************************************************************)
(* d3 zoom transform (d3.zoomIdentity, Transform), as a value [k, x, y]    *)
(***************************************************************************)
Transform(k, x, y) == [k |-> k, x |-> x, y |-> y]
zoomIdentity == Transform(ROne, RZero, RZero)
TScale(t, k) == Transform(RMul(t.k, k), t.x, t.y)
TTranslate(t, x, y) == Transform(t.k, RAdd(t.x, RMul(t.k, x)), RAdd(t.y, RMul(t.k, y)))
TInvertX(t, px) == RDiv(RSub(px, t.x), t.k)
TInvertY(t, py) == RDiv(RSub(py, t.y), t.k)
TInvert(t, p) == <<TInvertX(t, p[1]), TInvertY(t, p[2])>>

\* transform.rescaleX(x): the domain is the range mapped back through the
\* transform and then through x.invert
rescaleX(t, x) ==
    LinearScale(ScaleInvert(x, TInvertX(t, x.r0)), ScaleInvert(x, TInvertX(t, x.r1)),
                x.r0, x.r1)

(***************************************************************************)
(* d3 zoom behaviour as configured by createZoom:                          *)
(* scaleExtent [1, 1000], extent = translateExtent = [[0,0],[width,height]]*)
(***************************************************************************)
ScaleExtentMin == 1
ScaleExtentMax == 1000

\* (mutant: the upper scale bound is not applied)
ClampScale_NoUpper(k) == RMax(RInt(ScaleExtentMin), k)

ClampScale(k) == RMax(RInt(ScaleExtentMin), RMin(RInt(ScaleExtentMax), k))

\* d3-zoom scale(transform, k)
ZScale(t, k) == Transform(ClampScale(k), t.x, t.y)
\* d3-zoom translate(transform, p0, p1)
ZTranslate(t, p0, p1) ==
    Transform(t.k, RSub(p0[1], RMul(p1[1], t.k)), RSub(p0[2], RMul(p1[2], t.k)))
\* Math.min(0, d0) || Math.max(0, d1)
MinOrMax(d0, d1) == IF RMin(RZero, d0) # RZero THEN RMin(RZero, d0) ELSE RMax(RZero, d1)
\* d3-zoom defaultConstrain(transform, extent, translateExtent); ext = <<width, height>>
Constrain(t, ext) ==
    LET dx0 == TInvertX(t, RZero)
        dx1 == RSub(TInvertX(t, ext[1]), ext[1])
        dy0 == TInvertY(t, RZero)
        dy1 == RSub(TInvertY(t, ext[2]), ext[2])
        mx == IF RLt(dx0, dx1) THEN RDiv(RAdd(dx0, dx1), RInt(2)) ELSE MinOrMax(dx0, dx1)
        my == IF RLt(dy0, dy1) THEN RDiv(RAdd(dy0, dy1), RInt(2)) ELSE MinOrMax(dy0, dy1)
    IN  TTranslate(t, mx, my)

\* (mutant: the top-left corner of the extent instead of its centre)
Centroid_Origin(ext) == <<RZero, RZero>>

Centroid(ext) == <<RDiv(ext[1], RInt(2)), RDiv(ext[2], RInt(2))>>

\* zoom.scaleBy(selection, factor): scale about the centre of the extent
ScaleByTarget(t0, factor, ext) ==
    LET p0 == Centroid(ext)
        p1 == TInvert(t0, p0)
    IN  Constrain(ZTranslate(ZScale(t0, RMul(t0.k, factor)), p0, p1), ext)

\* a wheel gesture at pointer p
WheelTarget(t0, factor, p, ext) ==
    Constrain(ZTranslate(ZScale(t0, RMul(t0.k, factor)), p, TInvert(t0, p)), ext)

\* a drag from pointer p by delta
DragTarget(t0, p, delta, ext) ==
    Constrain(ZTranslate(t0, <<RAdd(p[1], delta[1]), RAdd(p[2], delta[2])>>,
                         TInvert(t0, p)), ext)

\* One frame strictly inside a zoom transition from a to b (d3.interpolateZoom
\* between the views [cx, cy, w/k] of a and b about the centre p).  The path
\* satisfies  width^2 = w0^2 + K*l - 4*d2*l^2  (l = fraction of the way of the
\* view centre, K = w1^2 - w0^2 + 4*d2, rho^2 = 2); the frame taken is the
\* point of the path on the line through the start whose slope is midway
\* between the tangent at the start and the chord to the end.  Lengths are
\* taken in units of the start width w/a.k, which the path equation is
\* homogeneous in.
TransitionFrame(a, b, p, w) ==
    LET ua == TInvert(a, p)
        ub == TInvert(b, p)
        unit == RDiv(w, a.k)
        w0 == ROne
        w1 == RDiv(a.k, b.k)
        dx == RDiv(RSub(ub[1], ua[1]), unit)
        dy == RDiv(RSub(ub[2], ua[2]), unit)
        d2 == RAdd(RMul(dx, dx), RMul(dy, dy))
        K == RAdd(RSub(RMul(w1, w1), RMul(w0, w0)), RMul(RInt(4), d2))
        m == RDiv(RAdd(RDiv(K, RMul(RInt(2), w0)), RSub(w1, w0)), RInt(2))
        l == IF d2 = RZero THEN RZero
             ELSE RDiv(RSub(K, RMul(RMul(RInt(2), w0), m)),
                       RAdd(RMul(m, m), RMul(RInt(4), d2)))
        wl == IF d2 = RZero THEN RDiv(RAdd(w0, w1), RInt(2)) ELSE RAdd(w0, RMul(m, l))
        k == RDiv(a.k, wl)
        ux == RAdd(ua[1], RMul(l, RSub(ub[1], ua[1])))
        uy == RAdd(ua[2], RMul(l, RSub(ub[2], ua[2])))
    IN  Transform(k, RSub(p[1], RMul(ux, k)), RSub(p[2], RMul(uy, k)))

(***************************************************************************)
(* State                                                                   *)
(***************************************************************************)
VARIABLES
    conv,           \* calendar-converter harness: the value being converted
    page,           \* page initialisation: the loads, the DOM built, the error
    rz,             \* resize listener: clock, timers and the resizeTimeout handle
    categories,     \* category names in manifest order
    events,         \* filteredEvents: [date, type, dateValue]
    window,         \* [clientWidth, innerHeight] of the browser window
    x,              \* base calendar scale (domain = extent of the events)
    categoryRange,  \* range of categoryScale
    zoomExtent,     \* <<width, height>> of zoom.extent and zoom.translateExtent
    currentZoom,    \* the module variable currentZoom
    elZoom,         \* the transform d3 keeps on the svg element (__zoom)
    anim,           \* the running zoomBy transition, or NoAnim
    eventCx,        \* cx of every event circle
    eventCy,        \* cy of every event circle
    xAxisScale,     \* scale held and drawn by the calendar axis
    xAxisDayScale,  \* scale held and drawn by the day-clock axis
    zoomLevelText,  \* text of the zoom readout
    urlZoom,        \* number written to the "zoom" query parameter
    resizeTimeout,  \* TRUE while a debounced resize recompute is pending
    lastOp,         \* the handler that ran last
    steps,          \* number of user inputs so far
    ticks,          \* number of transition frames sampled so far
    tooltip         \* the info bubble: its opacity and the payload last written

viewVars ==
    <<categories, events, window, x, categoryRange, zoomExtent, currentZoom, elZoom, anim,
      eventCx, eventCy, xAxisScale, xAxisDayScale, zoomLevelText, urlZoom, resizeTimeout,
      lastOp, steps, ticks, tooltip>>
vars == <<conv, page, rz, viewVars>>

(***************************************************************************)
(* Calendar converter: inputs                                              *)
(***************************************************************************)
YearWindow == 1
OrdWindow == 150

LandmarkYears ==
    {-4000, -401, -400, -101, -100, -5, -4, -1, 1, 4, 5, 100, 200, 300, 400,
     1000, 1582, 1600, 1900, 2000, 2024, 4000}
Years ==
    {y \in -4000 .. 4000 :
        y # 0 /\ \E c \in LandmarkYears : y - c <= YearWindow /\ c - y <= YearWindow}

\* proleptic Gregorian leap rule on the signed year number
IsLeap(y) == y % 4 = 0 /\ (y % 100 # 0 \/ y % 400 = 0)
DaysInMonth(y, m) ==
    IF m = 2 THEN (IF IsLeap(y) THEN 29 ELSE 28)
    ELSE IF m \in {4, 6, 9, 11} THEN 30 ELSE 31
ValidDates ==
    {dt \in {DateRec(y, m, d) : y \in Years, m \in 1 .. 12, d \in 1 .. 31} :
        dt.day <= DaysInMonth(dt.year, dt.month)}

Before(d1, d2) ==
    \/ d1.year < d2.year
    \/ d1.year = d2.year /\ d1.month < d2.month
    \/ d1.year = d2.year /\ d1.month = d2.month /\ d1.day < d2.day

FollowingYear(y) == IF y = -1 THEN 1 ELSE y + 1
NextDay(dt) ==
    IF dt.day < DaysInMonth(dt.year, dt.month) THEN DateRec(dt.year, dt.month, dt.day + 1)
    ELSE IF dt.month < 12 THEN DateRec(dt.year, dt.month + 1, 1)
    ELSE DateRec(FollowingYear(dt.year), 1, 1)
\* later dates a date is compared with: the next day, the first day of the next
\* month, and New Year of every later sampled year up to the next landmark
LaterDates(dt) ==
    {NextDay(dt)} \cup
    {DateRec(dt.year, m, 1) : m \in {dt.month + 1} \cap (1 .. 12)} \cup
    {DateRec(y, 1, 1) : y \in {z \in Years : z > dt.year /\
                                 \A v \in Years : v > dt.year => z <= v}}

OrdLandmarks == {260090, 1721058, 1721424, 1794000, 2086000, 2299161, 2451545, 3182395}
OrdinalInputs ==
    {OrdOf(z + i, RHalf) : z \in OrdLandmarks, i \in (0 - OrdWindow) .. OrdWindow}

\* ordinals at noon (integers) and at midnight (ending in .5)
NumberInputs ==
    {OrdOf(z + i, f) : z \in OrdLandmarks, i \in (0 - OrdWindow) .. OrdWindow,
                       f \in {RZero, RHalf}}

NoDate == DateRec(0, 0, 0)
\* the info bubble as createTooltip leaves it: transparent and empty
NoTooltip ==
    [opacity |-> "0", event |-> 0, date |-> "", nan |-> FALSE, minutesInDay |-> <<0, 1>>,
     timeInDay |-> ""]
NoOrd == OrdOf(0, RZero)
ConvIdle ==
    [stage |-> "idle", date |-> NoDate, ord |-> NoOrd, back |-> NoDate,
     date2 |-> NoDate, ord2 |-> NoOrd, text |-> "", B |-> 0]

\* dates handed to formatDate: the dates of events as loaded (nothing excludes
\* the year number 0, which numberToDate returns too)
FormatYears == {-4000, -753, -44, -1, 0, 1, 44, 1969, 4000}
FormatDates == {DateRec(y, m, d) : y \in FormatYears, m \in 1 .. 12, d \in {1, 15, 28}}

\* dates whose correction term is looked at: around the year number 0 and the
\* century years, every month
CorrectionYears == {-4000, -401, -400, -101, -100, -2, -1, 0, 1, 2, 99, 100, 101,
                    399, 400, 401, 1582, 2000, 4000}
CorrectionDates == {DateRec(y, m, d) : y \in CorrectionYears, m \in 1 .. 12, d \in {1, 28}}

\* the page-initialisation and resize-listener parts at rest
PageIdle ==
    [pc |-> "idle", categories |-> <<>>, files |-> <<>>, filter |-> <<>>,
     filtered |-> <<>>, domain |-> <<>>, dom |-> {}, error |-> "", log |-> <<>>,
     completed |-> <<>>, lanes |-> <<>>, setups |-> 0]
DebounceIdle ==
    [now |-> 0, resizeTimeout |-> 0, nextId |-> 1, timers |-> {}, lastResize |-> -1,
     resizes |-> 0, recomputes |-> 0, runs |-> 0, lastOp |-> "none"]

(***************************************************************************)
(* Calendar converter: the conversions applied to the inputs               *)
(***************************************************************************)
ViewOff ==
    /\ categories = <<>> /\ events = <<>> /\ window = <<>> /\ x = <<>>
    /\ categoryRange = <<>> /\ zoomExtent = <<>> /\ currentZoom = zoomIdentity
    /\ elZoom = zoomIdentity /\ anim = <<>> /\ eventCx = <<>> /\ eventCy = <<>>
    /\ xAxisScale = <<>> /\ xAxisDayScale = <<>> /\ zoomLevelText = ""
    /\ urlZoom = ROne /\ resizeTimeout = FALSE /\ lastOp = "none" /\ steps = 0
    /\ ticks = 0 /\ tooltip = NoTooltip

DateInit ==
    /\ ViewOff
    /\ page = PageIdle
    /\ rz = DebounceIdle
    /\ \/ \E dt \in ValidDates : conv = [ConvIdle EXCEPT !.stage = "date", !.date = dt]
       \/ \E jd \in OrdinalInputs : conv = [ConvIdle EXCEPT !.stage = "jdn", !.ord = jd]
       \/ \E dt \in FormatDates : conv = [ConvIdle EXCEPT !.stage = "unformatted", !.date = dt]
       \/ \E dt \in CorrectionDates : conv = [ConvIdle EXCEPT !.stage = "term", !.date = dt]
       \/ \E jd \in NumberInputs : conv = [ConvIdle EXCEPT !.stage = "number", !.ord = jd]

\* ordinal := dateToNumber(date)
ToOrdinal ==
    /\ conv.stage = "date"
    /\ conv' = [conv EXCEPT !.stage = "ordinal", !.ord = dateToNumber(conv.date)]
    /\ UNCHANGED <<page, rz, viewVars>>

\* back := numberToDate(dateToNumber(date))
ToDate ==
    /\ conv.stage = "ordinal"
    /\ conv' = [conv EXCEPT !.stage = "roundtrip", !.back = numberToDate(conv.ord)]
    /\ UNCHANGED <<page, rz, viewVars>>

\* a chronologically later date is converted too
ConvertLater ==
    /\ conv.stage = "ordinal"
    /\ \E d2 \in LaterDates(conv.date) :
          conv' = [conv EXCEPT !.stage = "pair", !.date2 = d2,
                               !.ord2 = dateToNumber(d2)]
    /\ UNCHANGED <<page, rz, viewVars>>

\* back := numberToDate(x)
FromOrdinal ==
    /\ conv.stage = "jdn"
    /\ conv' = [conv EXCEPT !.stage = "decoded", !.back = numberToDate(conv.ord)]
    /\ UNCHANGED <<page, rz, viewVars>>

\* ord2 := dateToNumber(numberToDate(x))
BackToOrdinal ==
    /\ conv.stage = "decoded"
    /\ conv' = [conv EXCEPT !.stage = "reencoded", !.ord2 = dateToNumber(conv.back)]
    /\ UNCHANGED <<page, rz, viewVars>>

\* text := formatDate(date)
FormatDate ==
    /\ conv.stage = "unformatted"
    /\ conv' = [conv EXCEPT !.stage = "formatted", !.text = formatDate(conv.date)]
    /\ UNCHANGED <<page, rz, viewVars>>

\* dateToNumber(date), with the value of its local B kept
CorrectionTerm ==
    /\ conv.stage = "term"
    /\ conv' = [conv EXCEPT !.stage = "corrected", !.ord = dateToNumber(conv.date),
                            !.B = dateToNumber_B(conv.date)]
    /\ UNCHANGED <<page, rz, viewVars>>

\* back := numberToDate(jd) for an integer or half-integer jd
DecodeNumber ==
    /\ conv.stage = "number"
    /\ conv' = [conv EXCEPT !.stage = "structure", !.back = numberToDate(conv.ord)]
    /\ UNCHANGED <<page, rz, viewVars>>

DateNext ==
    \/ DecodeNumber
    \/ ToOrdinal \/ ToDate \/ ConvertLater \/ FromOrdinal \/ BackToOrdinal \/ FormatDate
    \/ CorrectionTerm

DateSpec == DateInit /\ [][DateNext]_vars

(***************************************************************************)
(* Claims about the calendar converter                                     *)
(***************************************************************************)
\* C2: for every valid date with year in -4000..4000 (no year 0),
\* numberToDate(dateToNumber(date)) is the same year, month and day.
C2_RoundTrip ==
    conv.stage = "roundtrip" => conv.back = conv.date

C10_InverseRoundTrip ==
    conv.stage = "reencoded" => conv.ord2 = conv.ord

(***************************************************************************)
(* Timeline view: configuration and inputs                                 *)
(***************************************************************************)
CONFIG ==
    [marginTop |-> 50, marginRight |-> 50, marginBottom |-> 50, marginLeft |-> 100,
     minWidth |-> 800, minHeight |-> 300, dayStart |-> 0, dayEnd |-> 24 * 60]

MaxSteps == 3
MaxTicks == 1
MaxFrameScale == 2
MaxFrameStep == 2

\* manifests with the events loaded for them, already concatenated
Datasets ==
    { [categories |-> <<"event", "technology">>,
       events |-> << [date |-> DateRec(1969, 7, 16), type |-> "technology"],
                     [date |-> DateRec(1969, 7, 20), type |-> "event"],
                     [date |-> DateRec(1969, 7, 24), type |-> "event"] >>],
      [categories |-> <<"event", "technology">>,
       events |-> << [date |-> DateRec(-44, 3, 15), type |-> "event"],
                     [date |-> DateRec(-45, 1, 1), type |-> "technology"],
                     [date |-> DateRec(-44, 1, 26), type |-> "event"] >>],
      [categories |-> <<"event">>,
       events |-> << [date |-> DateRec(2000, 1, 1), type |-> "event"] >>] }

\* browser window sizes: parent.clientWidth and window.innerHeight
Windows ==
    { [clientWidth |-> 640, innerHeight |-> 400],
      [clientWidth |-> 990, innerHeight |-> 400],
      [clientWidth |-> 1190, innerHeight |-> 500] }

\* values of the "zoom" query parameter ("" = absent)
ZoomParams == {"", "0.5", "1", "4", "1000", "2000"}
\* parseFloat on those strings
parseFloat(str) ==
    CASE str = "0.5" -> <<1, 2>>
      [] str = "1" -> RInt(1)
      [] str = "4" -> RInt(4)
      [] str = "1000" -> RInt(1000)
      [] str = "2000" -> RInt(2000)

ButtonFactors == {<<1, 2>>, RInt(2)}
WheelFactors == {<<1, 2>>, RInt(2)}
\* wheel pointers: the top-left and bottom-right corner of the zoom extent
WheelPointers(ext) == {<<RZero, RZero>>, ext}
\* drags across the whole extent, towards the top left and the bottom right
DragDeltas(ext) == {<<RNeg(ext[1]), RNeg(ext[2])>>, ext}

(***************************************************************************)
(* Timeline view: layout functions                                         *)
(***************************************************************************)
calculateDimensions(win) ==
    LET padding == 40
        availableWidth == RInt(win.clientWidth - padding)
        availableHeight == RMul(RInt(win.innerHeight), <<7, 10>>)
    IN  [width |-> RMax(RInt(CONFIG.minWidth), availableWidth),
         height |-> RMax(RInt(CONFIG.minHeight), availableHeight)]

PlotSize(win) ==
    LET dim == calculateDimensions(win)
    IN  <<RSub(dim.width, RInt(CONFIG.marginLeft + CONFIG.marginRight)),
          RSub(dim.height, RInt(CONFIG.marginTop + CONFIG.marginBottom))>>

processEventData(evs) ==
    [i \in DOMAIN evs |->
        [date |-> evs[i].date, type |-> evs[i].type, dateValue |-> dateToNumber(evs[i].date)]]

\* d3.extent over dateValue
OrdMin(evs) == CHOOSE v \in {evs[i].dateValue : i \in DOMAIN evs} :
                  \A i \in DOMAIN evs : OrdLe(v, evs[i].dateValue)
OrdMax(evs) == CHOOSE v \in {evs[i].dateValue : i \in DOMAIN evs} :
                  \A i \in DOMAIN evs : OrdLe(evs[i].dateValue, v)

\* setupScales: the base calendar scale
BaseScale(evs, width) == LinearScale(OrdMin(evs), OrdMax(evs), RZero, width)
CategoryRange(height) == <<RInt(50), RSub(height, RInt(50))>>

\* d3.scalePoint over the categories (padding 0, align 0.5)
IndexOf(seq, v) == CHOOSE i \in DOMAIN seq : seq[i] = v
categoryScale(cats, rng, c) ==
    LET n == Len(cats)
        step == RDiv(RSub(rng[2], rng[1]), RInt(IF n - 1 > 1 THEN n - 1 ELSE 1))
        start == RAdd(rng[1],
                      RMul(RSub(RSub(rng[2], rng[1]), RMul(step, RInt(n - 1))), RHalf))
    IN  RAdd(start, RMul(step, RInt(IndexOf(cats, c) - 1)))

\* cy of an event: its lane plus the month offset ((month - 6.5) / 12) * 50
EventY(cats, rng, ev) ==
    RAdd(categoryScale(cats, rng, ev.type),
         RMul(RDiv(RSub(RInt(ev.date.month), <<13, 2>>), RInt(12)), RInt(50)))

\* Math.round
MathRound(r) == RFloor(RAdd(r, RHalf))
ZoomLevelText(k) == ToString(MathRound(RMul(k, RInt(100)))) \o "%"

(***************************************************************************)
(* The zoom handler: zoom.on("zoom", ...)                                  *)
(***************************************************************************)
\* (mutant: the upper-bound clamp is left out)
ConstrainDomain_NoUpper(newX, minDateValue, maxDateValue) ==
    IF OrdLt(newX.d0, minDateValue)
    THEN LinearScale(minDateValue, OrdAdd(newX.d1, OrdSub(minDateValue, newX.d0)),
                     newX.r0, newX.r1)
    ELSE newX

\* "Constrain the domain": the two shifts, applied in the order of the code
ConstrainDomain(newX, minDateValue, maxDateValue) ==
    LET lowShift == OrdSub(minDateValue, newX.d0)
        a0 == IF OrdLt(newX.d0, minDateValue) THEN minDateValue ELSE newX.d0
        a1 == IF OrdLt(newX.d0, minDateValue) THEN OrdAdd(newX.d1, lowShift) ELSE newX.d1
        highShift == OrdSub(a1, maxDateValue)
        b1 == IF OrdLt(maxDateValue, a1) THEN maxDateValue ELSE a1
        b0 == IF OrdLt(maxDateValue, a1) THEN OrdAdd(a0, RNeg(highShift)) ELSE a0
    IN  LinearScale(b0, b1, newX.r0, newX.r1)

\* (mutant: the day-clock scale xDay, range [dayStart, dayEnd], is rescaled
\* instead of the calendar scale x)
ZoomedScale_DayClock(t, base) ==
    ConstrainDomain(rescaleX(t, LinearScale(base.d0, base.d1, RInt(CONFIG.dayStart),
                                            RInt(CONFIG.dayEnd))),
                    base.d0, base.d1)

\* newX after newX.domain(newDomain)
ZoomedScale(t, base) == ConstrainDomain(rescaleX(t, base), base.d0, base.d1)

\* (mutant: the markers are placed with the unzoomed base scale)
PositionsX_Unzoomed(scale, evs) == [i \in DOMAIN evs |-> ScaleApply(x, evs[i].dateValue)]

\* cx of every event through a scale
PositionsX(scale, evs) == [i \in DOMAIN evs |-> ScaleApply(scale, evs[i].dateValue)]
PositionsY(cats, rng, evs) == [i \in DOMAIN evs |-> EventY(cats, rng, evs[i])]

(***************************************************************************)
(* Timeline view: initial state (end of the Promise.all callback) and      *)
(* the handlers                                                            *)
(***************************************************************************)
NoAnim == [active |-> FALSE]

\* the query parameter "zoom" turned into the initial currentZoom
InitialZoom(q) ==
    IF q = "" THEN TScale(zoomIdentity, RInt(1)) ELSE TScale(zoomIdentity, parseFloat(q))

Init ==
    /\ conv = ConvIdle
    /\ page = PageIdle
    /\ rz = DebounceIdle
    /\ \E ds \in Datasets, win \in Windows, q \in ZoomParams :
        LET evs == processEventData(ds.events)
            size == PlotSize(win)
            base == BaseScale(evs, size[1])
            t == InitialZoom(q)
            newX == ZoomedScale(t, base)
        IN  /\ categories = ds.categories
            /\ events = evs
            /\ window = win
            /\ x = base
            /\ categoryRange = CategoryRange(size[2])
            /\ zoomExtent = size
            /\ eventCy = PositionsY(ds.categories, CategoryRange(size[2]), evs)
            \* svgRoot.call(zoom.transform, currentZoom) runs the zoom handler
            /\ currentZoom = t
            /\ elZoom = t
            /\ eventCx = PositionsX(newX, evs)
            /\ xAxisScale = newX
            /\ xAxisDayScale = newX
            /\ zoomLevelText = ZoomLevelText(t.k)
            /\ urlZoom = t.k
    /\ anim = NoAnim
    /\ resizeTimeout = FALSE
    /\ lastOp = "load"
    /\ steps = 0
    /\ ticks = 0
    /\ tooltip = NoTooltip

\* (mutant: the handler applies the transform to the y-positions too)
ZoomHandler_RescalesY(t) ==
    LET newX == ZoomedScale(t, x)
    IN  /\ currentZoom' = t
        /\ elZoom' = t
        /\ eventCx' = PositionsX(newX, events)
        /\ eventCy' = [i \in DOMAIN eventCy |-> RAdd(RMul(t.k, eventCy[i]), t.y)]
        /\ xAxisScale' = newX
        /\ xAxisDayScale' = newX
        /\ zoomLevelText' = ZoomLevelText(t.k)
        /\ urlZoom' = t.k
        /\ UNCHANGED <<conv, page, rz, tooltip, categories, events, window, x, categoryRange, zoomExtent,
                       resizeTimeout>>

\* the zoom handler run with event.transform = t
ZoomHandler(t) ==
    LET newX == ZoomedScale(t, x)
    IN  /\ currentZoom' = t
        /\ elZoom' = t
        /\ eventCx' = PositionsX(newX, events)
        /\ xAxisScale' = newX
        /\ xAxisDayScale' = newX
        /\ zoomLevelText' = ZoomLevelText(t.k)
        /\ urlZoom' = t.k
        /\ UNCHANGED <<conv, page, rz, tooltip, categories, events, window, x, categoryRange, zoomExtent,
                       eventCy, resizeTimeout>>

\* a click on "-" or "+": window.zoomBy(factor) starts a 300 ms transition
\* towards zoom.scaleBy's target (a running transition is interrupted)
ZoomByClick(factor) ==
    /\ steps < MaxSteps
    /\ anim' = [active |-> TRUE, a |-> elZoom,
                b |-> ScaleByTarget(elZoom, factor, zoomExtent),
                p |-> Centroid(zoomExtent),
                w |-> RMax(zoomExtent[1], zoomExtent[2]),
                frames |-> 0]
    /\ lastOp' = "zoomBy"
    /\ steps' = steps + 1
    /\ UNCHANGED <<conv, page, rz, tooltip, categories, events, window, x, categoryRange, zoomExtent,
                   currentZoom, elZoom, eventCx, eventCy, xAxisScale, xAxisDayScale,
                   zoomLevelText, urlZoom, resizeTimeout, ticks>>

\* a timer tick inside the transition: the tween commits an interpolated frame
\* (sampled for at most MaxTicks transitions of a run, started by one of the
\* first MaxFrameStep inputs, and only for transitions between scales up to
\* MaxFrameScale, which keeps the exact fractions small)
TransitionTick ==
    /\ anim.active
    /\ anim.frames = 0
    /\ ticks < MaxTicks
    /\ steps <= MaxFrameStep
    /\ RLe(anim.a.k, RInt(MaxFrameScale))
    /\ RLe(anim.b.k, RInt(MaxFrameScale))
    /\ ZoomHandler(TransitionFrame(anim.a, anim.b, anim.p, anim.w))
    /\ anim' = [anim EXCEPT !.frames = 1]
    /\ lastOp' = "frame"
    /\ ticks' = ticks + 1
    /\ UNCHANGED steps

\* the last tick of the transition (t = 1) commits the target
TransitionEnd ==
    /\ anim.active
    /\ ZoomHandler(anim.b)
    /\ anim' = NoAnim
    /\ lastOp' = "end"
    /\ UNCHANGED <<steps, ticks>>

\* a wheel gesture at pointer p; d3 ignores it when the scale would not change
Wheel(factor, p) ==
    /\ steps < MaxSteps
    /\ ClampScale(RMul(elZoom.k, factor)) # elZoom.k
    /\ ZoomHandler(WheelTarget(elZoom, factor, p, zoomExtent))
    /\ anim' = NoAnim
    /\ lastOp' = "gesture"
    /\ steps' = steps + 1
    /\ UNCHANGED ticks

\* (mutant: the drag leaves the running transition in place)
Drag_KeepsTransition(delta) ==
    /\ steps < MaxSteps
    /\ ZoomHandler(DragTarget(elZoom, Centroid(zoomExtent), delta, zoomExtent))
    /\ lastOp' = "gesture"
    /\ steps' = steps + 1
    /\ UNCHANGED <<anim, ticks>>

\* a mouse drag by delta
Drag(delta) ==
    /\ steps < MaxSteps
    /\ ZoomHandler(DragTarget(elZoom, Centroid(zoomExtent), delta, zoomExtent))
    /\ anim' = NoAnim
    /\ lastOp' = "gesture"
    /\ steps' = steps + 1
    /\ UNCHANGED ticks

\* the window is resized: the listener (re)schedules the recompute
WindowResize(win) ==
    /\ steps < MaxSteps
    /\ win # window
    /\ window' = win
    /\ resizeTimeout' = TRUE
    /\ lastOp' = "resize"
    /\ steps' = steps + 1
    /\ UNCHANGED <<conv, page, rz, tooltip, categories, events, x, categoryRange, zoomExtent, currentZoom,
                   elZoom, anim, eventCx, eventCy, xAxisScale, xAxisDayScale,
                   zoomLevelText, urlZoom, ticks>>

\* the debounce timer fires: handleResize(...)
handleResize ==
    /\ resizeTimeout
    /\ LET size == PlotSize(window)
           newBase == LinearScale(x.d0, x.d1, RZero, size[1])
       IN  /\ x' = newBase
           /\ categoryRange' = CategoryRange(size[2])
           /\ zoomExtent' = size
           /\ eventCx' = PositionsX(newBase, events)
           /\ eventCy' = PositionsY(categories, CategoryRange(size[2]), events)
    /\ resizeTimeout' = FALSE
    /\ lastOp' = "handleResize"
    /\ UNCHANGED <<conv, page, rz, tooltip, categories, events, window, currentZoom, elZoom, anim,
                   xAxisScale, xAxisDayScale, zoomLevelText, urlZoom, steps, ticks>>

Next ==
    \/ \E factor \in ButtonFactors : ZoomByClick(factor)
    \/ TransitionTick
    \/ TransitionEnd
    \/ \E factor \in WheelFactors, p \in WheelPointers(zoomExtent) : Wheel(factor, p)
    \/ \E delta \in DragDeltas(zoomExtent) : Drag(delta)
    \/ \E win \in Windows : WindowResize(win)
    \/ handleResize

Spec == Init /\ [][Next]_vars

(***************************************************************************)
(* Hovering: the info bubble and the day clock                             *)
(***************************************************************************)
\* the day-clock scale xDay of setupScales: the base domain onto
\* [dayStart, dayEnd]; nothing changes it later
xDay == LinearScale(x.d0, x.d1, RInt(CONFIG.dayStart), RInt(CONFIG.dayEnd))

\* String(n).padStart(2, '0')
padStart2(n) == IF n >= 0 /\ n < 10 THEN "0" \o ToString(n) ELSE ToString(n)

\* `${hours}:${minutes}` with hours = floor(m / 60), minutes = floor(m % 60),
\* for m >= 0
HoursMinutes(m) ==
    LET hours == RFloor(RDiv(m, RInt(60)))
        minutes == RFloor(RSub(m, RInt(60 * hours)))
    IN  padStart2(hours) \o ":" \o padStart2(minutes)

\* the label of a day-clock axis tick at value d: xAxisDay's tickFormat
dayTickFormat(d) == HoursMinutes(ScaleApply(xDay, d))

\* mouseover on the marker of event i: eventHandlers.showInfo.  minDateValue
\* and maxDateValue are the base domain; with totalTimeSpan = 0 the quotient
\* is 0 / 0 = NaN (timeSinceStart is 0 too), and so are hours and minutes
showInfo(i) ==
    /\ i \in DOMAIN events
    /\ LET d == events[i]
           timeSinceStart == OrdSub(d.dateValue, x.d0)
           totalTimeSpan == OrdSub(x.d1, x.d0)
           isNaN == totalTimeSpan = RZero
           minutesInDay == IF isNaN THEN RZero
                           ELSE RMul(RDiv(timeSinceStart, totalTimeSpan),
                                     RInt(CONFIG.dayEnd - CONFIG.dayStart))
       IN  tooltip' = [opacity |-> "0.9", event |-> i, date |-> formatDate(d.date),
                       nan |-> isNaN, minutesInDay |-> minutesInDay,
                       timeInDay |-> IF isNaN THEN "NaN:NaN" ELSE HoursMinutes(minutesInDay)]
    /\ lastOp' = "showInfo"
    /\ UNCHANGED <<conv, page, rz, categories, events, window, x, categoryRange, zoomExtent,
                   currentZoom, elZoom, anim, eventCx, eventCy, xAxisScale, xAxisDayScale,
                   zoomLevelText, urlZoom, resizeTimeout, steps, ticks>>

\* mouseout: eventHandlers.hideInfo fades the bubble out, its content stays
hideInfo ==
    /\ tooltip.opacity = "0.9"
    /\ tooltip' = [tooltip EXCEPT !.opacity = "0"]
    /\ lastOp' = "hideInfo"
    /\ UNCHANGED <<conv, page, rz, categories, events, window, x, categoryRange, zoomExtent,
                   currentZoom, elZoom, anim, eventCx, eventCy, xAxisScale, xAxisDayScale,
                   zoomLevelText, urlZoom, resizeTimeout, steps, ticks>>

\* hovering between wheel zooms, drags and resizes
HoverNext ==
    \/ \E i \in 1 .. 3 : showInfo(i)
    \/ hideInfo
    \/ \E factor \in WheelFactors, p \in WheelPointers(zoomExtent) : Wheel(factor, p)
    \/ \E delta \in DragDeltas(zoomExtent) : Drag(delta)
    \/ \E win \in Windows : WindowResize(win)
    \/ handleResize

HoverSpec == Init /\ [][HoverNext]_vars

(***************************************************************************)
(* Page initialisation: the manifest and the category files are loaded,    *)
(* then the Promise.all callback builds the chart                          *)
(***************************************************************************)
\* the category lists a manifest can hold
Manifests == {<<>>, <<"event">>, <<"event", "technology">>}
\* an event as a category file holds it: its date and the value of its own
\* "type" property ("" when the file gives none)
FileEvent(year, month, day, type) == [date |-> DateRec(year, month, day), type |-> type]
\* the events a category file can hold
FileContents ==
    { <<>>,
      <<FileEvent(1969, 7, 20, "")>>,
      <<FileEvent(-44, 3, 15, "event"), FileEvent(2000, 1, 1, "misc")>>,
      <<FileEvent(2000, 1, 1, ""), FileEvent(2000, 1, 1, "")>>,
      <<FileEvent(-50, 1, 1, ""), FileEvent(10, 6, 1, "misc"),
        FileEvent(500, 6, 1, ""), FileEvent(1990, 12, 31, "")>>,
      <<FileEvent(1900, 1, 1, ""), FileEvent(1000, 12, 31, "")>> }
\* values of the startYear / endYear inputs
FilterInputs ==
    { <<"", "">>, <<"1900", "">>, <<"", "-1">>, <<"2100", "">>, <<"0", "1000">> }
\* parseInt(str, 10) of the input values used
parseInt(str) ==
    CASE str = "0" -> 0 [] str = "1000" -> 1000 [] str = "1900" -> 1900
      [] str = "-1" -> -1 [] str = "2100" -> 2100
\* str ? parseInt(str, 10) : null, with <<>> for null
getFilterYears(startYearStr, endYearStr) ==
    [startYear |-> IF startYearStr # "" THEN <<parseInt(startYearStr)>> ELSE <<>>,
     endYear |-> IF endYearStr # "" THEN <<parseInt(endYearStr)>> ELSE <<>>]
Filters == {getFilterYears(in[1], in[2]) : in \in FilterInputs}

Pending == [state |-> "pending", events |-> <<>>]

\* (mutant: the bounds are exclusive)
filterEvents_Exclusive(evs, startYear, endYear) ==
    SelectSeq(evs, LAMBDA event :
        /\ ~(startYear # <<>> /\ event.date.year <= startYear[1])
        /\ ~(endYear # <<>> /\ event.date.year >= endYear[1]))

filterEvents(evs, startYear, endYear) ==
    SelectSeq(evs, LAMBDA event :
        /\ ~(startYear # <<>> /\ event.date.year < startYear[1])
        /\ ~(endYear # <<>> /\ event.date.year > endYear[1]))

\* d3.extent(events, d => d.dateValue): <<>> stands for [undefined, undefined]
xExtentOf(evs) == IF evs = <<>> THEN <<>> ELSE <<OrdMin(evs), OrdMax(evs)>>

\* (mutant: a single-point extent is rejected too)
setupScalesThrows_SinglePoint(evs) ==
    LET xExtent == xExtentOf(evs)
    IN  xExtent = <<>> \/ xExtent[1] = xExtent[2]

\* setupScales: if (!xExtent[0] || !xExtent[1]) throw ...
setupScalesThrows(evs) ==
    LET xExtent == xExtentOf(evs)
    IN  xExtent = <<>> \/ xExtent[1] = NoOrd \/ xExtent[2] = NoOrd

\* (mutant: the event lists are concatenated in the order the loads completed)
RECURSIVE FlatEvents_CompletionOrder(_, _)
FlatEvents_CompletionOrder(files, n) ==
    IF n = 0 THEN <<>>
    ELSE FlatEvents_CompletionOrder(files, n - 1) \o files[page.completed[n]].events

\* eventsArrays.flat() over the files 1 .. n
RECURSIVE FlatEvents(_, _)
FlatEvents(files, n) ==
    IF n = 0 THEN <<>> ELSE FlatEvents(files, n - 1) \o files[n].events

\* elements added by setupSVG, and by the steps after setupScales
SvgElements == {"svg", "background"}
ChartElements(cats, evs) ==
    {"x-axis", "x-axis-day", "info-bubble", "clipPath", "chart-area"}
    \cup (IF cats = <<>> THEN {} ELSE {"category-label"})
    \cup (IF evs = <<>> THEN {} ELSE {"event"})

LoadInit ==
    /\ conv = ConvIdle
    /\ ViewOff
    /\ rz = DebounceIdle
    /\ \E f \in Filters : page = [PageIdle EXCEPT !.pc = "manifest", !.filter = f]

\* d3.json('data/categories.json') settles: .then(categoriesConfig => ...)
ManifestLoaded(cats) ==
    /\ page.pc = "manifest"
    /\ page' = [page EXCEPT !.pc = "files", !.categories = cats,
                            !.files = [i \in 1 .. Len(cats) |-> Pending]]
    /\ UNCHANGED <<conv, rz, viewVars>>

\* the manifest resolves to null: console.error and return
ManifestNull ==
    /\ page.pc = "manifest"
    /\ page' = [page EXCEPT !.pc = "stopped",
                            !.log = Append(@, "Failed to load categories configuration.")]
    /\ UNCHANGED <<conv, rz, viewVars>>

\* the manifest load rejects: there is no rejection handler
ManifestRejected ==
    /\ page.pc = "manifest"
    /\ page' = [page EXCEPT !.pc = "rejected"]
    /\ UNCHANGED <<conv, rz, viewVars>>

\* (mutant: a type given in the file wins over the manifest's category)
tagEvents_KeepFileType(content, category) ==
    [j \in DOMAIN content |->
        [date |-> content[j].date,
         type |-> IF content[j].type # "" THEN content[j].type ELSE category]]

\* events.map(e => ({ ...e, type: config.category }))
tagEvents(content, category) ==
    [j \in DOMAIN content |-> [content[j] EXCEPT !.type = category]]

\* d3.json(config.file) resolves: events tagged with the category, or [] for null
FileLoaded(i, content) ==
    /\ page.pc = "files"
    /\ i \in DOMAIN page.files
    /\ page.files[i].state = "pending"
    /\ page' = [page EXCEPT !.files[i] =
                  [state |-> "fulfilled",
                   events |-> tagEvents(content, page.categories[i])],
                  !.completed = Append(@, i)]
    /\ UNCHANGED <<conv, rz, viewVars>>

\* d3.json(config.file) rejects (network error, 404, invalid JSON)
FileFailed(i) ==
    /\ page.pc = "files"
    /\ i \in DOMAIN page.files
    /\ page.files[i].state = "pending"
    /\ page' = [page EXCEPT !.files[i] = [state |-> "rejected", events |-> <<>>],
                            !.completed = Append(@, i)]
    /\ UNCHANGED <<conv, rz, viewVars>>

\* Promise.all rejects with the first rejection: the .then callback never runs
PromiseAllRejects ==
    /\ page.pc = "files"
    /\ \E i \in DOMAIN page.files : page.files[i].state = "rejected"
    /\ page' = [page EXCEPT !.pc = "rejected"]
    /\ UNCHANGED <<conv, rz, viewVars>>

\* Promise.all resolves: the callback runs, up to the throw in setupScales or
\* to its end
PromiseAllResolves ==
    /\ page.pc = "files"
    /\ \A i \in DOMAIN page.files : page.files[i].state = "fulfilled"
    /\ LET allEvents == FlatEvents(page.files, Len(page.files))
           processedEvents == processEventData(allEvents)
           filteredEvents == filterEvents(processedEvents, page.filter.startYear,
                                          page.filter.endYear)
       IN  IF setupScalesThrows(filteredEvents)
           THEN page' = [page EXCEPT !.pc = "aborted", !.filtered = filteredEvents,
                                     !.setups = @ + 1,
                                     !.dom = SvgElements,
                                     !.error = "Invalid data for x-axis extent."]
           ELSE page' = [page EXCEPT !.pc = "rendered", !.filtered = filteredEvents,
                                     !.setups = @ + 1, !.lanes = page.categories,
                                     !.domain = xExtentOf(filteredEvents),
                                     !.dom = SvgElements \cup
                                             ChartElements(page.categories, filteredEvents)]
    /\ UNCHANGED <<conv, rz, viewVars>>

LoadNext ==
    \/ \E cats \in Manifests : ManifestLoaded(cats)
    \/ ManifestNull
    \/ ManifestRejected
    \/ \E i \in 1 .. 2, content \in FileContents : FileLoaded(i, content)
    \/ \E i \in 1 .. 2 : FileFailed(i)
    \/ PromiseAllRejects
    \/ PromiseAllResolves

LoadSpec == LoadInit /\ [][LoadNext]_vars

(***************************************************************************)
(* The resize listener and its debounce timer, with a clock in ms          *)
(***************************************************************************)
ResizeDelay == 250
MaxTime == 1000
MaxResizes == 3

\* window.setTimeout(f, delay) at time now: timer id, due no earlier than now + delay
setTimeout(timers, id, now) == timers \cup {[id |-> id, due |-> now + ResizeDelay]}

\* (mutant: clearTimeout does nothing)
clearTimeout_Noop(timers, handle) == timers

\* window.clearTimeout(handle): a fired or unknown handle is ignored
clearTimeout(timers, handle) == {t \in timers : t.id # handle}

\* (mutant: a set handle is taken for a pending timer and nothing is scheduled)
resizeListener_SkipIfSet(r) ==
    IF r.resizeTimeout # 0
    THEN [r EXCEPT !.lastResize = r.now, !.resizes = @ + 1, !.recomputes = 0,
                   !.lastOp = "resize"]
    ELSE [r EXCEPT !.timers = setTimeout(r.timers, r.nextId, r.now),
                   !.resizeTimeout = r.nextId, !.nextId = @ + 1,
                   !.lastResize = r.now, !.resizes = @ + 1, !.recomputes = 0,
                   !.lastOp = "resize"]

\* the 'resize' listener: if (resizeTimeout) clearTimeout(resizeTimeout);
\* resizeTimeout = setTimeout(..., 250). The handle is never reset to null.
resizeListener(r) ==
    LET cleared == IF r.resizeTimeout # 0 THEN clearTimeout(r.timers, r.resizeTimeout)
                   ELSE r.timers
    IN  [r EXCEPT !.timers = setTimeout(cleared, r.nextId, r.now),
                  !.resizeTimeout = r.nextId, !.nextId = @ + 1,
                  !.lastResize = r.now, !.resizes = @ + 1, !.recomputes = 0,
                  !.lastOp = "resize"]

ResizeInit ==
    /\ conv = ConvIdle
    /\ ViewOff
    /\ page = PageIdle
    /\ rz = DebounceIdle

\* a resize event is dispatched
ResizeEvent ==
    /\ rz.resizes < MaxResizes
    /\ rz.now + ResizeDelay <= MaxTime
    /\ rz' = resizeListener(rz)
    /\ UNCHANGED <<conv, page, viewVars>>

\* a due timer fires: its callback calls handleResize(...)
TimerFires ==
    /\ \E t \in rz.timers :
          /\ t.due <= rz.now
          /\ rz' = [rz EXCEPT !.timers = @ \ {t}, !.recomputes = @ + 1,
                              !.runs = @ + 1, !.lastOp = "recompute"]
    /\ UNCHANGED <<conv, page, viewVars>>

\* time passes
Advance(d) ==
    /\ rz.now + d <= MaxTime
    /\ rz' = [rz EXCEPT !.now = @ + d, !.lastOp = "advance"]
    /\ UNCHANGED <<conv, page, viewVars>>

ResizeNext ==
    \/ ResizeEvent
    \/ TimerFires
    \/ \E d \in {50, 250} : Advance(d)

ResizeSpec == ResizeInit /\ [][ResizeNext]_vars

\* the same with the browser's scheduling: time passes and a due timer fires
ResizeLive ==
    /\ ResizeInit
    /\ [][ResizeNext]_vars
    /\ WF_vars(TimerFires)
    /\ WF_vars(\E d \in {50, 250} : Advance(d))

(***************************************************************************)
(* Claims about the timeline view                                          *)
(***************************************************************************)
\* the last step was a run of the zoom handler for a gesture (wheel, drag, a
\* frame or the end of a zoom-by transition)
GestureCommit == lastOp \in {"gesture", "frame", "end"}
\* the last step was any run of the zoom handler (the initial zoom.transform too)
HandlerRan == lastOp \in {"load", "gesture", "frame", "end"}
\* lo <= k <= hi for the zoom's scale extent
WithinScaleExtent(k) == RLe(RInt(ScaleExtentMin), k) /\ RLe(k, RInt(ScaleExtentMax))
\* the domain of scale s lies within the base scale's domain, in order
WithinBase(s) == OrdLe(x.d0, s.d0) /\ OrdLe(s.d0, s.d1) /\ OrdLe(s.d1, x.d1)

\* C1: after every gesture commit the domain the zoom handler renders (after
\* its clamping step) satisfies baseMin <= visibleMin <= visibleMax <= baseMax.
C1_ClampInvariant ==
    GestureCommit => WithinBase(xAxisScale)

\* C3: after every run of the zoom handler the x-position of every event is
\* the value of the calendar axis' scale at the event's ordinal, the day-clock
\* axis has the same scale, that scale is the clamped rescale of the base scale
\* by the committed transform, and the readout is round(scale * 100) + "%".
C3_OneScale ==
    HandlerRan =>
        /\ \A i \in DOMAIN events : eventCx[i] = ScaleApply(xAxisScale, events[i].dateValue)
        /\ xAxisDayScale = xAxisScale
        /\ xAxisScale = ConstrainDomain(rescaleX(currentZoom, x), x.d0, x.d1)
        /\ zoomLevelText = ToString(RFloor(RAdd(RMul(currentZoom.k, RInt(100)), RHalf))) \o "%"

\* a pan at twice the base scale: the markers follow the panned scale
C3_Witness_Panned ==
    /\ lastOp = "gesture"
    /\ currentZoom.k = RInt(2)
    /\ currentZoom.x # RZero
    /\ zoomLevelText = "200%"
    /\ Len(events) > 1
    /\ xAxisDayScale = xAxisScale
    /\ xAxisScale.d1 = x.d1
    /\ \A i \in DOMAIN events : eventCx[i] = ScaleApply(xAxisScale, events[i].dateValue)

\* C4: after handleResize every event's x-position and both axes are derived
\* from the current transform applied to the base scale with its new range.
C4_ResizeRederives ==
    lastOp = "handleResize" =>
        LET s == ZoomedScale(currentZoom, x)
        IN  /\ eventCx = PositionsX(s, events)
            /\ xAxisScale = s
            /\ xAxisDayScale = s

\* C6: when a zoom-by transition (factor 0.5 or 2) has run to its end, the
\* committed scale lies within [1, 1000].
C6_ZoomByWithinExtent ==
    lastOp = "end" => WithinScaleExtent(currentZoom.k)

\* a zoom-by that ended at the upper limit
C6_Witness_AtLimit ==
    /\ lastOp = "end"
    /\ currentZoom.k = RInt(ScaleExtentMax)
    /\ urlZoom = RInt(ScaleExtentMax)

\* C7: in every reachable state the viewport transform's scale lies within
\* [1, 1000], the state right after the initial zoom.transform included.
C7_ScaleWithinExtent ==
    WithinScaleExtent(currentZoom.k)

\* C8: in every reachable state the domain of the base scale rescaled by the
\* current transform satisfies d0 >= baseMin and d1 <= baseMax.
C8_RescaledWithinBase ==
    LET s == rescaleX(currentZoom, x)
    IN  OrdLe(x.d0, s.d0) /\ OrdLe(s.d1, x.d1)

\* C9: after every gesture commit the domain of the base scale rescaled by the
\* stored transform (currentZoom) is the clamped domain that was rendered.
C9_StoredMatchesRendered ==
    GestureCommit =>
        LET s == rescaleX(currentZoom, x)
        IN  s.d0 = xAxisScale.d0 /\ s.d1 = xAxisScale.d1

(***************************************************************************)
(* Further claims about the calendar converter                             *)
(***************************************************************************)
\* the standard Julian Day Number (at noon) of a proleptic Gregorian date, by
\* the textbook day count: 365 days a year plus the leap days, months of the
\* March-based year through (153 m + 2) / 5
StandardJDN(date) ==
    LET a == (14 - date.month) \div 12
        yy == date.year + 4800 - a
        mm == date.month + 12 * a - 3
    IN  date.day + ((153 * mm + 2) \div 5) + 365 * yy + (yy \div 4) - (yy \div 100)
        + (yy \div 400) - 32045

\* C11: for every valid proleptic Gregorian date with year >= 1, dateToNumber
\* is the standard Julian Day Number of the date at 00:00 (the noon number
\* minus one half), and the next calendar day's value is larger by exactly 1.
C11_StandardDayNumber ==
    /\ (conv.stage \in {"ordinal", "pair", "roundtrip"} /\ conv.date.year >= 1) =>
          conv.ord = OrdOf(StandardJDN(conv.date) - 1, RHalf)
    /\ (conv.stage = "pair" /\ conv.date.year >= 1 /\ conv.date2 = NextDay(conv.date)) =>
          conv.ord2 = OrdAdd(conv.ord, ROne)

\* 2000-01-01 and the day after it
C11_Witness_Y2K ==
    /\ conv.stage = "pair"
    /\ conv.date = DateRec(2000, 1, 1)
    /\ conv.ord = OrdOf(2451544, RHalf)
    /\ conv.date2 = DateRec(2000, 1, 2)
    /\ conv.ord2 = OrdOf(2451545, RHalf)

\* C12: formatDate of a date with month in 1..12 is "<day> <three-letter
\* month> <absolute value of the year> <era>", the era being BCE for year 0
\* and negative years and CE for positive years.
C12_FormatDate ==
    conv.stage = "formatted" =>
        conv.text = ToString(conv.date.day) \o " " \o monthNames[conv.date.month] \o " "
                    \o ToString(Abs(conv.date.year)) \o " "
                    \o (IF conv.date.year <= 0 THEN "BCE" ELSE "CE")

(***************************************************************************)
(* Further claims about the timeline view                                  *)
(***************************************************************************)
\* C13: when the zoom handler has committed the identity transform (scale 1,
\* translate 0), every event's x-position is the base scale applied to its
\* ordinal, and the rendered domain is the rescaled one, which is the base
\* domain (the clamp changed nothing).
C13_IdentityIsBaseLayout ==
    (HandlerRan /\ currentZoom = zoomIdentity) =>
        /\ \A i \in DOMAIN events : eventCx[i] = ScaleApply(x, events[i].dateValue)
        /\ rescaleX(currentZoom, x) = x
        /\ xAxisScale = x

\* zooming out again to the identity after a zoom: the base layout is back
C13_Witness_BackToIdentity ==
    /\ lastOp = "end"
    /\ currentZoom = zoomIdentity
    /\ steps >= 2
    /\ Len(events) > 1
    /\ \A i \in DOMAIN events : eventCx[i] = ScaleApply(x, events[i].dateValue)
    /\ \E i, j \in DOMAIN events : eventCx[i] # eventCx[j]

\* C14: with base domain [a, b], a < b, and plot width W the base scale maps a
\* to 0, b to W and the midpoint c = (a + b) / 2 to W / 2; and when a zoom-by
\* of factor 2 started at the identity ends (no resize in between), the
\* rendered domain is [c - (b - a) / 4, c + (b - a) / 4] and an event at
\* ordinal c is at W / 2.
C14_ZoomByTwoCentred ==
    [][(/\ anim.active
        /\ anim.a = zoomIdentity
        /\ anim.b.k = RInt(2)
        /\ anim.w = x.r1
        /\ OrdLt(x.d0, x.d1)
        /\ lastOp' = "end")
       => LET a == x.d0
              b == x.d1
              W == x.r1
              quarter == RDiv(OrdSub(b, a), RInt(4))
              c == OrdAdd(a, RMul(quarter, RInt(2)))
          IN  /\ ScaleApply(x, a) = RZero
              /\ ScaleApply(x, b) = W
              /\ ScaleApply(x, c) = RDiv(W, RInt(2))
              /\ xAxisScale'.d0 = OrdAdd(a, quarter)
              /\ xAxisScale'.d1 = OrdAdd(a, RMul(quarter, RInt(3)))
              /\ \A i \in DOMAIN events :
                    events[i].dateValue = c => eventCx'[i] = RDiv(W, RInt(2))]_vars

\* the three-event data set after a zoom-by of 2 from the identity: the event
\* in the middle of the domain is in the middle of the plot
C14_Witness_MiddleEvent ==
    /\ lastOp = "end"
    /\ currentZoom = Transform(RInt(2), RNeg(RDiv(zoomExtent[1], RInt(2))),
                               RNeg(RDiv(zoomExtent[2], RInt(2))))
    /\ x.r1 = zoomExtent[1]
    /\ xAxisScale.d0 = OrdAdd(x.d0, RDiv(OrdSub(x.d1, x.d0), RInt(4)))
    /\ \E i \in DOMAIN events :
          /\ events[i].dateValue = OrdAdd(x.d0, RDiv(OrdSub(x.d1, x.d0), RInt(2)))
          /\ eventCx[i] = RDiv(x.r1, RInt(2))

(***************************************************************************)
(* Claims about page initialisation                                        *)
(***************************************************************************)
\* C15: when the event set is empty after filtering, initialisation reports
\* an error and aborts with no chart element (SVG, background, axes, labels)
\* added to the page.
C15_NoPartialChart ==
    (page.pc \in {"aborted", "rendered"} /\ page.filtered = <<>>) =>
        /\ page.pc = "aborted"
        /\ page.error # ""
        /\ page.dom = {}

\* C16: setupScales throws exactly when the (filtered) event set is empty; for
\* a non-empty set, a single-ordinal one included, the scales' domain is
\* [min ordinal, max ordinal].
C16_ThrowsIffEmpty ==
    page.pc \in {"aborted", "rendered"} =>
        /\ page.pc = "aborted" <=> page.filtered = <<>>
        /\ page.filtered # <<>> =>
              /\ Len(page.domain) = 2
              /\ \E i \in DOMAIN page.filtered : page.filtered[i].dateValue = page.domain[1]
              /\ \E i \in DOMAIN page.filtered : page.filtered[i].dateValue = page.domain[2]
              /\ \A i \in DOMAIN page.filtered :
                    /\ OrdLe(page.domain[1], page.filtered[i].dateValue)
                    /\ OrdLe(page.filtered[i].dateValue, page.domain[2])

\* two events on one day: a single-point domain, rendered without error
C16_Witness_SinglePoint ==
    /\ page.pc = "rendered"
    /\ Len(page.filtered) = 2
    /\ page.domain = <<dateToNumber(DateRec(2000, 1, 1)), dateToNumber(DateRec(2000, 1, 1))>>
    /\ page.error = ""

\* C17: if the load of a category file fails, that category counts as an empty
\* list and initialisation completes, rendering the events of the others.
C17_FailedFileIsEmpty ==
    (page.pc \notin {"manifest", "files"} /\
     \E i \in DOMAIN page.files : page.files[i].state = "rejected") =>
        /\ page.pc \in {"aborted", "rendered"}
        /\ page.filtered =
              filterEvents(processEventData(FlatEvents(page.files, Len(page.files))),
                           page.filter.startYear, page.filter.endYear)

(***************************************************************************)
(* Claims about the resize debounce                                        *)
(***************************************************************************)
\* C18: the timer's recompute never runs while fewer than 250 ms have passed
\* since the most recent resize event, and at most one recompute timer is
\* pending at any time.
C18_Debounced ==
    /\ Cardinality(rz.timers) <= 1
    /\ rz.lastOp = "recompute" => rz.now - rz.lastResize >= ResizeDelay

\* a burst of three resize events and the one recompute after it
C18_Witness_Burst ==
    /\ rz.lastOp = "recompute"
    /\ rz.resizes = 3
    /\ rz.runs = 1
    /\ rz.timers = {}
    /\ rz.now - rz.lastResize >= ResizeDelay

\* C19: after a resize event, once the events stop, the recompute runs: from
\* then on exactly one recompute has run since the last resize event, also
\* when an earlier timer has fired and the stored handle is stale.
C19_EventuallyOneRecompute ==
    /\ [](rz.recomputes <= 1)
    /\ [](rz.resizes > 0 => <>[](rz.timers = {} /\ rz.recomputes = 1))

\* a recompute for a resize event that found a stale handle
C19_Witness_StaleHandle ==
    /\ rz.lastOp = "recompute"
    /\ rz.runs = 2
    /\ rz.recomputes = 1
    /\ rz.resizes = 2
    /\ rz.resizeTimeout = 2

(***************************************************************************)
(* Claims about gestures during a zoom-by animation                        *)
(***************************************************************************)
\* C20: a wheel or drag gesture commits its own transform in the step in
\* which it arrives, computed from the transform on screen, whether or not a
\* zoom-by animation is running, and ends that animation; animation commits
\* happen only while an animation is running; and after every commit the
\* stored transform is the one just committed (last writer wins).
C20_LastWriterWins ==
    [][/\ lastOp' = "gesture" =>
            /\ ~anim'.active
            /\ currentZoom' = elZoom'
            /\ \/ \E delta \in DragDeltas(zoomExtent) :
                     currentZoom' = DragTarget(elZoom, Centroid(zoomExtent), delta,
                                               zoomExtent)
               \/ \E factor \in WheelFactors, p \in WheelPointers(zoomExtent) :
                     currentZoom' = WheelTarget(elZoom, factor, p, zoomExtent)
       /\ lastOp' \in {"frame", "end"} =>
            /\ anim.active
            /\ currentZoom' = elZoom'
            /\ lastOp' = "end" => currentZoom' = anim.b]_vars

\* a drag that arrived between a frame and the end of a zoom-by animation:
\* the committed scale is the frame's, not a scale a finished zoom-by leaves
C20_Witness_DragInterrupts ==
    /\ lastOp = "gesture"
    /\ ~anim.active
    /\ currentZoom.k[2] > 2
    /\ currentZoom = elZoom
    /\ urlZoom = currentZoom.k

(***************************************************************************)
(* Further claims about page initialisation                                *)
(***************************************************************************)
\* C21: in whatever order the file loads complete, chart set-up runs at most
\* once, only when every file load has resolved, and its lanes and its event
\* list are in the manifest's order (all events of an earlier manifest entry
\* before those of a later one), not in completion order.
C21_ManifestOrder ==
    /\ page.setups <= 1
    /\ page.setups = 1 <=> page.pc \in {"aborted", "rendered"}
    /\ page.setups = 1 =>
          /\ \A i \in DOMAIN page.files : page.files[i].state = "fulfilled"
          /\ \A i, j \in DOMAIN page.filtered :
                i < j => \E a, b \in DOMAIN page.categories :
                            /\ a <= b
                            /\ page.categories[a] = page.filtered[i].type
                            /\ page.categories[b] = page.filtered[j].type
    /\ page.pc = "rendered" => page.lanes = page.categories

\* the second file's load completed first; the first file's events come first
C21_Witness_ReverseCompletion ==
    /\ page.pc = "rendered"
    /\ page.completed = <<2, 1>>
    /\ page.lanes = <<"event", "technology">>
    /\ Len(page.filtered) >= 2
    /\ page.filtered[1].type = "event"
    /\ page.filtered[Len(page.filtered)].type = "technology"

\* the events loaded, before filtering
LoadedEvents == processEventData(FlatEvents(page.files, Len(page.files)))
\* startYear <= year <= endYear, an absent bound imposing no restriction
InFilterRange(year) ==
    /\ page.filter.startYear = <<>> \/ page.filter.startYear[1] <= year
    /\ page.filter.endYear = <<>> \/ year <= page.filter.endYear[1]
\* the position in LoadedEvents of the k-th event whose year is in range
KthInRange(k) ==
    CHOOSE i \in DOMAIN LoadedEvents :
        /\ InFilterRange(LoadedEvents[i].date.year)
        /\ Cardinality({j \in 1 .. i : InFilterRange(LoadedEvents[j].date.year)}) = k

\* C22: the filtered list holds exactly the loaded events whose year lies in
\* startYear .. endYear (both inclusive, an absent bound not restricting), in
\* their original order.
C22_FilterInclusive ==
    page.setups = 1 =>
        /\ Len(page.filtered) =
              Cardinality({i \in DOMAIN LoadedEvents :
                              InFilterRange(LoadedEvents[i].date.year)})
        /\ \A k \in DOMAIN page.filtered : page.filtered[k] = LoadedEvents[KthInRange(k)]

\* years -50, 10, 500, 1990 filtered with 0 .. 1000 give the years 10 and 500
C22_Witness_Example ==
    /\ page.pc = "rendered"
    /\ page.filter = [startYear |-> <<0>>, endYear |-> <<1000>>]
    /\ [i \in DOMAIN LoadedEvents |-> LoadedEvents[i].date.year] = <<-50, 10, 500, 1990>>
    /\ [i \in DOMAIN page.filtered |-> page.filtered[i].date.year] = <<10, 500>>

\* an event of year 1000 is kept by endYear = 1000
C22_Witness_InclusiveBound ==
    /\ page.pc = "rendered"
    /\ page.filter.endYear = <<1000>>
    /\ \E k \in DOMAIN page.filtered : page.filtered[k].date.year = 1000

\* C23: every displayed event's category is the category of the manifest entry
\* whose file it was loaded from, whatever the file itself says, and so a
\* member of the manifest's category set.
C23_CategoryFromManifest ==
    /\ \A i \in DOMAIN page.files :
          \A j \in DOMAIN page.files[i].events :
              page.files[i].events[j].type = page.categories[i]
    /\ \A k \in DOMAIN page.filtered :
          page.filtered[k].type \in {page.categories[a] : a \in DOMAIN page.categories}

\* a file whose events carry their own type values was loaded and displayed
C23_Witness_Overridden ==
    /\ page.pc = "rendered"
    /\ page.categories = <<"event", "technology">>
    /\ Len(page.filtered) = 4
    /\ page.filtered[3].date = DateRec(-44, 3, 15)
    /\ page.filtered[3].type = "technology"
    /\ page.filtered[4].type = "technology"

(***************************************************************************)
(* Further claims about the zoom handler                                   *)
(***************************************************************************)
\* the two shifts of the clamping step in the other order: upper bound first
ConstrainDomain_UpperFirst(newX, minDateValue, maxDateValue) ==
    LET highShift == OrdSub(newX.d1, maxDateValue)
        a1 == IF OrdLt(maxDateValue, newX.d1) THEN maxDateValue ELSE newX.d1
        a0 == IF OrdLt(maxDateValue, newX.d1) THEN OrdAdd(newX.d0, RNeg(highShift))
              ELSE newX.d0
        lowShift == OrdSub(minDateValue, a0)
        b0 == IF OrdLt(a0, minDateValue) THEN minDateValue ELSE a0
        b1 == IF OrdLt(a0, minDateValue) THEN OrdAdd(a1, lowShift) ELSE a1
    IN  LinearScale(b0, b1, newX.r0, newX.r1)

\* the clamp of the proposed domain p agrees with the clamp in the other order,
\* keeps the span, and gives the base domain when the span is the base width
ClampOrderFree(p) ==
    LET c == ConstrainDomain(p, x.d0, x.d1)
    IN  /\ c = ConstrainDomain_UpperFirst(p, x.d0, x.d1)
        /\ OrdSub(c.d1, c.d0) = OrdSub(p.d1, p.d0)
        /\ OrdSub(p.d1, p.d0) = OrdSub(x.d1, x.d0) => (c.d0 = x.d0 /\ c.d1 = x.d1)

\* C24: for the domain every run of the zoom handler proposes, clamping the
\* lower bound first gives the same domain as clamping the upper bound first,
\* the clamped domain has the proposed span, and a proposed span equal to the
\* base width gives exactly the base domain.
C24_ClampOrderIrrelevant ==
    HandlerRan => ClampOrderFree(rescaleX(currentZoom, x))

\* the same statement for the runs of the handler whose scale is at least 1
C24_ClampOrderIrrelevant_FromOne ==
    (HandlerRan /\ RLe(ROne, currentZoom.k)) => ClampOrderFree(rescaleX(currentZoom, x))

(***************************************************************************)
(* Claims about the parts of the calendar converter                        *)
(***************************************************************************)
\* 2 - A + floor(A / 4) with A = floor(y / 100) of the month-shifted year y
FullCorrection(date) ==
    LET y == IF date.month <= 2 THEN date.year - 1 ELSE date.year
        A == y \div 100
    IN  2 - A + (A \div 4)

\* C25: the correction term B of dateToNumber is 2 - A + floor(A / 4) for every
\* date whose year is non-negative and 0 for every date whose year is negative,
\* in every month, January and February included.
C25_CorrectionTerm ==
    conv.stage = "corrected" =>
        conv.B = IF conv.date.year >= 0 THEN FullCorrection(conv.date) ELSE 0

\* the same statement without January and February of the year number 0
C25_CorrectionTerm_ExceptYearZero ==
    (conv.stage = "corrected" /\ ~(conv.date.year = 0 /\ conv.date.month <= 2)) =>
        conv.B = IF conv.date.year >= 0 THEN FullCorrection(conv.date) ELSE 0

(***************************************************************************)
(* Claims about what the zoom handler leaves alone, and about the day clock*)
(***************************************************************************)
\* C26: a zoom or pan commit leaves every event's y-position, the displayed
\* events with their cached ordinals, the categories and the base domain as
\* they were; in every state the y-position is the category lane plus
\* ((month - 6.5) / 12) * 50 and the cached ordinal is dateToNumber of the date.
C26_CommitFrame ==
    /\ [](/\ \A i \in DOMAIN events :
                /\ eventCy[i] = RAdd(categoryScale(categories, categoryRange, events[i].type),
                                     RDiv(RInt((2 * events[i].date.month - 13) * 25), RInt(12)))
                /\ events[i].dateValue = dateToNumber(events[i].date)
          /\ DOMAIN eventCy = DOMAIN events)
    /\ [][GestureCommit' =>
            /\ eventCy' = eventCy
            /\ events' = events
            /\ categories' = categories
            /\ categoryRange' = categoryRange
            /\ x'.d0 = x.d0 /\ x'.d1 = x.d1]_vars

\* a pan at a scale other than 1 moved the markers sideways only
C26_Witness_MovedSideways ==
    /\ lastOp = "gesture"
    /\ currentZoom.k # ROne
    /\ currentZoom.x # RZero
    /\ Len(events) = 3
    /\ eventCx # PositionsX(x, events)
    /\ eventCy = PositionsY(categories, categoryRange, events)

\* the hover payload of the event shown agrees with the proportional formula
\* and with the day-clock axis
HoverAgrees ==
    LET d == events[tooltip.event]
    IN  /\ ~tooltip.nan
        /\ x.d0 # x.d1
        /\ tooltip.minutesInDay =
              RMul(RDiv(OrdSub(d.dateValue, x.d0), OrdSub(x.d1, x.d0)), RInt(1440))
        /\ RLe(RZero, tooltip.minutesInDay) /\ RLe(tooltip.minutesInDay, RInt(1440))
        /\ d.dateValue = x.d0 => tooltip.timeInDay = "00:00"
        /\ d.dateValue = x.d1 => tooltip.timeInDay = "24:00"
        /\ tooltip.minutesInDay = ScaleApply(xDay, d.dateValue)
        /\ tooltip.timeInDay = dayTickFormat(d.dateValue)

\* C27: for every displayed event of every valid dataset, one whose events all
\* share one ordinal included, the hover "time in day" is
\* (ordinal - baseMin) / (baseMax - baseMin) * 1440 minutes, a defined value in
\* 0 .. 1440 (00:00 for the earliest event, 24:00 for the latest), and the
\* value of the day-clock axis at that ordinal, at every zoom.
C27_TimeInDay ==
    tooltip.opacity = "0.9" => HoverAgrees

\* the same statement for the datasets with at least two different ordinals
C27_TimeInDay_TwoOrdinals ==
    (tooltip.opacity = "0.9" /\ x.d0 # x.d1) => HoverAgrees

(***************************************************************************)
(* Claims about the shape of numberToDate's result                         *)
(***************************************************************************)
\* C28: for every integer or half-integer ordinal of the range of the years
\* -4000 .. 4000, numberToDate gives an integer year of that range (one year
\* of margin), a month in 1 .. 12 and a day in 1 .. 31, on the Julian branch
\* (floor(jd + 0.5) < 2299161) and on the Gregorian branch.
C28_StructurallyValid ==
    conv.stage = "structure" =>
        /\ conv.back.year \in -4001 .. 4001
        /\ conv.back.month \in 1 .. 12
        /\ conv.back.day \in 1 .. 31

\* Gregorian branch, an integer ordinal: noon of 2000-01-01, with E = 14
C28_Witness_GregorianNoon ==
    /\ conv.stage = "structure"
    /\ conv.ord = OrdOf(2451545, RZero)
    /\ conv.back = DateRec(2000, 1, 1)

\* Julian branch, an integer ordinal: noon of 1 January of year 0, with E = 14
C28_Witness_JulianNoon ==
    /\ conv.stage = "structure"
    /\ conv.ord = OrdOf(1721058, RZero)
    /\ conv.back.month = 1

====
